---- MODULE Spec2Model ----
(***************************************************************************)
(* A model of the reader-mode content script (src/readtest/content.js):    *)
(* the reader overlay and the extension message bridge, the chat session   *)
(* with its streamed response decoder, the settings merge, the notebook    *)
(* autosave and the resizer drag.  Text is modelled as sequences of        *)
(* one-character strings.                                                  *)
(* Every action is one run of a handler between two suspension points      *)
(* (await, timer, event), as the single-threaded event loop runs it.       *)
(*                                                                         *)
(* An element that has left the document and that no suspended call or     *)
(* timer still refers to cannot be observed any more, so the model keeps   *)
(* the elements of mounted overlays only.                                  *)
(***************************************************************************)
EXTENDS Integers, Sequences, FiniteSets, TLC

VARIABLES
    dom,          \* the #reader-overlay elements mounted in document.body, in document order
    bodyActive,   \* document.body carries the class reader-mode-active
    opens,        \* number of openReader calls suspended on fetchReaderSettings
    last,         \* the extension message handled last: what sendResponse was called with
    syncStore,    \* chrome.storage.sync, key readerSettings
    chatInit,     \* a setTimeout(initializeChatInterface, 0) timer is pending
    messages,     \* chatState.messages
    loading,      \* chatState.loading
    sends,        \* askChatGPT calls suspended on fetch or on reader.read, with their locals
    chatEvent,    \* how the last askChatGPT call went on: rejected, accepted, or how it ended
    fetched,      \* result of a settings read (fetchReaderSettings applied to the stored object)
    nbTab,        \* the notebook panel (tab2) is the active tab panel
    nbText,       \* #notebookTextarea value
    nbInits,      \* pending setTimeout(initializeNotebook, 0) timers
    nbLoads,      \* initializeNotebook calls suspended on loadNotebook
    saveTimeout,  \* per input listener bound to the textarea: ms left on its autosave timer, -1 if none
    localStore,   \* chrome.storage.local, key notebookContent
    saveLog,      \* contents saveNotebook was called with by autosave timers since the last edit
    quiet,        \* time since the last notebook edit (ms, capped), -1 before any edit
    heard,        \* number of input listeners that handled the last notebook edit
    isResizing,   \* the flag isResizing of the mounted overlay's resizer
    leftPanelWidth, \* .reader-article style.width in pixels, 0 while none is assigned
    dragListeners,  \* the onMouseMove/onMouseUp pairs bound to document, with their startX and startWidth
    bodyCursor,   \* document.body.style.cursor (style.userSelect is set and reset with it)
    assigned      \* the assignments to style.width made by the handlers of the last mousemove

vars == <<dom, bodyActive, opens, last, syncStore, chatInit, messages, loading,
          sends, chatEvent, fetched, nbTab, nbText, nbInits, nbLoads,
          saveTimeout, localStore, saveLog, quiet, heard,
          isResizing, leftPanelWidth, dragListeners, bodyCursor, assigned>>

readerVars == <<dom, bodyActive, opens, last, syncStore, chatInit>>
chatVars == <<messages, loading, sends, chatEvent>>
notebookVars == <<nbTab, nbText, nbInits, nbLoads, saveTimeout, localStore,
                  saveLog, quiet, heard>>
resizerVars == <<isResizing, leftPanelWidth, dragListeners, bodyCursor, assigned>>

----------------------------------------------------------------------------
(* Bounds of the model. *)

MaxOpens == 2       \* openReader calls suspended at the same time
MaxMessages == 4    \* length of chatState.messages
MaxSends == 2       \* askChatGPT calls suspended at the same time
MaxLines == 3       \* lines of a streamed response body
MaxInits == 2       \* initializeNotebook runs on one textarea
MaxCutLines == 2    \* lines of a response body that ends without a newline
MaxDrags == 2       \* mousedown events on the resizer with no mouseup between them

----------------------------------------------------------------------------
(* Text helpers. *)

WhiteSpace == {" ", "\n", "\r"}

RECURSIVE TrimStart(_)
TrimStart(s) ==
    IF s # <<>> /\ Head(s) \in WhiteSpace THEN TrimStart(Tail(s)) ELSE s

RECURSIVE TrimEnd(_)
TrimEnd(s) ==
    IF s # <<>> /\ s[Len(s)] \in WhiteSpace THEN TrimEnd(SubSeq(s, 1, Len(s) - 1)) ELSE s

\* String.prototype.trim
Trim(s) == TrimEnd(TrimStart(s))

\* String.prototype.startsWith
StartsWith(s, p) == Len(s) >= Len(p) /\ SubSeq(s, 1, Len(p)) = p

RECURSIVE Concat(_)
Concat(ss) == IF ss = <<>> THEN <<>> ELSE Head(ss) \o Concat(Tail(ss))

----------------------------------------------------------------------------
(* Settings store. *)

Fields == {"fontSize", "lineHeight", "fontFamily", "backgroundColor",
           "textColor", "maxWidth", "darkMode"}

DEFAULT_SETTINGS ==
    [fontSize |-> 18, lineHeight |-> "1.8", fontFamily |-> "-apple-system",
     backgroundColor |-> "#ffffff", textColor |-> "#1f2933",
     maxWidth |-> "1000px", darkMode |-> FALSE]

\* A value a user could have stored for a field, other than the default.
OtherValue ==
    [fontSize |-> 20, lineHeight |-> "2.0", fontFamily |-> "serif",
     backgroundColor |-> "#000000", textColor |-> "#eeeeee",
     maxWidth |-> "800px", darkMode |-> TRUE]

EmptyObject == [f \in {} |-> FALSE]

\* Object.assign({}, a, b): b's own fields override a's.
ObjectAssign(a, b) ==
    [f \in (DOMAIN a) \cup (DOMAIN b) |-> IF f \in DOMAIN b THEN b[f] ELSE a[f]]

\* The mutation: the defaults are assigned last and override what is stored.
FetchReaderSettingsDefaultsWin(store) ==
    ObjectAssign(IF store.present THEN store.value ELSE EmptyObject, DEFAULT_SETTINGS)

\* fetchReaderSettings: store is what chrome.storage.sync holds under readerSettings.
FetchReaderSettings(store) ==
    ObjectAssign(DEFAULT_SETTINGS, IF store.present THEN store.value ELSE EmptyObject)

NoStore == [present |-> FALSE, value |-> EmptyObject]

\* Every stored object: any subset of the seven fields, each the default or another value.
AllStores ==
    {NoStore} \cup
    UNION {
        { [present |-> TRUE, value |-> [f \in S |-> IF f \in O THEN OtherValue[f] ELSE DEFAULT_SETTINGS[f]]]
            : O \in SUBSET S }
        : S \in SUBSET Fields }

\* The stored objects the reader model starts from.
ReaderStores == {NoStore, [present |-> TRUE, value |-> [f \in {"darkMode"} |-> TRUE]]}

----------------------------------------------------------------------------
(* Reader overlay. *)

Article == [found |-> TRUE, content |-> <<" ", "p">>, textContent |-> <<"p", " ">>]
NoArticle == [found |-> FALSE, content |-> <<>>, textContent |-> <<>>]

\* ReaderAbility.extractFromDocument: an article, or nothing.
Extractions == {Article, NoArticle}

\* The elements of an overlay as openReader builds them: data-theme, the settings
\* its toolbar handler closes over, #userInput, #sendButton, #messagesContainer.
NewOverlay(settings) ==
    [theme |-> IF settings.darkMode THEN "dark" ELSE "light",
     settings |-> settings,
     input |-> <<>>,
     sendDisabled |-> FALSE,
     rendered |-> <<>>]

\* isReaderActive: document.getElementById finds an overlay.
IsReaderActive == dom # <<>>

\* The element document.getElementById finds is in the first mounted overlay.
SetHead(d, overlay) == <<overlay>> \o Tail(d)

\* The mutation: removeReader leaves the overlay in the document.
RemovedDomKept(d) == d

\* removeReader on the document: the first overlay leaves it.
RemovedDom(d) == IF d = <<>> THEN d ELSE Tail(d)

\* The mutation: openReader mounts without removing an existing overlay first.
DomAfterOpenNoRemove(d, overlay) == Append(d, overlay)

\* openReader lines 567 and 838: removeReader(), then the new overlay is appended.
DomAfterOpen(d, overlay) == Append(RemovedDom(d), overlay)

\* renderMessages, lines 149-175: every message but element 0 is rendered.
RenderedList(ms) == [k \in 1 .. Len(ms) - 1 |-> ms[k + 1]]

\* renderMessages on the document: the list goes to the mounted
\* #messagesContainer; without one nothing happens.
RenderInto(d, ms) ==
    IF d = <<>> THEN d
    ELSE SetHead(d, [Head(d) EXCEPT !.rendered = RenderedList(ms)])

\* A suspended askChatGPT call keeps the #userInput it found; once that overlay
\* has left the document the element is no longer the one the user sees.
Detached(ss) == [i \in 1 .. Len(ss) |-> [ss[i] EXCEPT !.el = FALSE]]

Response(success, active, error) ==
    [success |-> success, active |-> active, error |-> error]

Handled(action, resp, threw) == [action |-> action, resp |-> resp, threw |-> threw]

\* toggleReader returns a promise only on the branch that calls openReader; on the
\* branch that closes an active reader it returns the plain object {active: false}.
ToggleReaderReturnsPromise(active) == ~active

\* The mutation: openReader reads the settings before it looks at the article.
SettingsReadsAlways(found, n) == n + 1

\* openReader lines 558-564: the throw for a missing article comes before the
\* settings read, so only a call with an article suspends on it.
SettingsReads(found, n) == IF found THEN n + 1 ELSE n

\* Message toggle-reader on a page whose readability pass yields a.  Reader
\* active: toggleReader removes the overlay and returns a plain object, the
\* listener's .then(...) on it throws a TypeError out of the listener and
\* sendResponse is never called.  Reader inactive: openReader either rejects at
\* once (no article; the rejection handler calls removeReader and the listener
\* answers success=false) or suspends on the settings read.
ToggleReaderWith(a) ==
    /\ IF ~ToggleReaderReturnsPromise(IsReaderActive)
       THEN /\ dom' = RemovedDom(dom)
            /\ bodyActive' = FALSE
            /\ sends' = Detached(sends)
            /\ last' = Handled("toggle-reader", <<>>, TRUE)
            /\ UNCHANGED opens
       ELSE IF a.found
            THEN /\ opens < MaxOpens
                 /\ opens' = SettingsReads(a.found, opens)
                 /\ last' = Handled("toggle-reader", <<>>, FALSE)
                 /\ UNCHANGED <<dom, bodyActive, sends>>
            ELSE /\ dom' = RemovedDom(dom)
                 /\ bodyActive' = FALSE
                 /\ sends' = Detached(sends)
                 /\ last' = Handled("toggle-reader",
                                    <<Response(FALSE, "none", "no article")>>, FALSE)
                 /\ opens' = SettingsReads(a.found, opens)
    /\ UNCHANGED <<syncStore, chatInit, messages, loading, chatEvent>>
    /\ UNCHANGED <<fetched, notebookVars, resizerVars>>

OnToggleReader == \E a \in Extractions : ToggleReaderWith(a)

\* The mutation: opening the reader starts the chat session afresh.
MessagesAfterOpenReset(ms) == <<ms[1]>>

\* removeReader (lines 58-64) and openReader (lines 556-1003) assign nothing to
\* chatState, which lives outside the overlay (lines 32-42): the list is kept.
MessagesAfterOpen(ms) == ms

\* openReader resumes after the settings read: removeReader, build and mount the
\* overlay, add the body class, schedule initializeChatInterface, return; the
\* promise handlers of toggleReader and of the listener then answer the message.
\* initializeChatInterface only renders the list of the overlay mounted when it
\* runs, so of several pending timers one is kept.
OpenReaderResume ==
    /\ opens > 0
    /\ opens' = opens - 1
    /\ dom' = DomAfterOpen(dom, NewOverlay(FetchReaderSettings(syncStore)))
    /\ bodyActive' = TRUE
    /\ sends' = IF dom = <<>> THEN sends ELSE Detached(sends)
    /\ chatInit' = TRUE
    /\ last' = Handled("toggle-reader", <<Response(TRUE, "true", "none")>>, FALSE)
    /\ messages' = MessagesAfterOpen(messages)
    /\ UNCHANGED <<syncStore, loading, chatEvent>>
    /\ UNCHANGED <<fetched, notebookVars, resizerVars>>

\* The timer set by openReader fires: initializeChatInterface renders the list.
InitializeChatInterface ==
    /\ chatInit
    /\ chatInit' = FALSE
    /\ dom' = RenderInto(dom, messages)
    /\ UNCHANGED <<bodyActive, opens, last, syncStore>>
    /\ UNCHANGED <<chatVars, fetched, notebookVars, resizerVars>>

\* Message get-reader-state.
OnGetReaderState ==
    /\ last' = Handled("get-reader-state",
                       <<Response(TRUE, IF IsReaderActive THEN "true" ELSE "false", "none")>>,
                       FALSE)
    /\ UNCHANGED <<dom, bodyActive, opens, syncStore, chatInit>>
    /\ UNCHANGED <<chatVars, fetched, notebookVars, resizerVars>>

\* Message close-reader.
OnCloseReader ==
    /\ dom' = RemovedDom(dom)
    /\ bodyActive' = FALSE
    /\ sends' = Detached(sends)
    /\ last' = Handled("close-reader", <<Response(TRUE, "false", "none")>>, FALSE)
    /\ UNCHANGED <<opens, syncStore, chatInit, messages, loading, chatEvent>>
    /\ UNCHANGED <<fetched, notebookVars, resizerVars>>

\* Toolbar click on the button with data-action="close".
ToolbarClose ==
    /\ IsReaderActive
    /\ dom' = RemovedDom(dom)
    /\ bodyActive' = FALSE
    /\ sends' = Detached(sends)
    /\ UNCHANGED <<opens, last, syncStore, chatInit, messages, loading, chatEvent>>
    /\ UNCHANGED <<fetched, notebookVars, resizerVars>>

\* The mutation: the settings are stored as they were loaded.
ThemeSettingsStale(settings, dark) == settings

\* Toolbar handler line 901: Object.assign({}, settings, { darkMode: !current }).
ThemeSettings(settings, dark) == ObjectAssign(settings, [f \in {"darkMode"} |-> dark])

\* Toolbar click on the button with data-action="toggle-theme": the theme of the
\* overlay is switched and the settings the handler closed over are stored with
\* the new darkMode.
ToolbarToggleTheme ==
    /\ IsReaderActive
    /\ LET current == Head(dom).theme = "dark"
       IN  /\ dom' = SetHead(dom, [Head(dom) EXCEPT
                                      !.theme = IF current THEN "light" ELSE "dark"])
           /\ syncStore' = [present |-> TRUE,
                            value |-> ThemeSettings(Head(dom).settings, ~current)]
    /\ UNCHANGED <<bodyActive, opens, last, chatInit>>
    /\ UNCHANGED <<chatVars, fetched, notebookVars, resizerVars>>

----------------------------------------------------------------------------
(* Chat session. *)

SystemMessage == [role |-> "system", content |-> <<"S">>]

Message(role, content) == [role |-> role, content |-> content]

\* What the user may type into #userInput.
Inputs == {<<>>, <<" ">>, <<" ", "h">>}

\* The user edits #userInput of the mounted overlay.
TypeInput ==
    /\ IsReaderActive
    /\ \E t \in Inputs :
        /\ t # Head(dom).input
        /\ dom' = SetHead(dom, [Head(dom) EXCEPT !.input = t])
    /\ UNCHANGED <<bodyActive, opens, last, syncStore, chatInit>>
    /\ UNCHANGED <<chatVars, fetched, notebookVars, resizerVars>>

\* The locals of an askChatGPT call suspended on fetch: the trimmed input, the
\* #userInput it found (el: that element is still the mounted one).  lenBefore, ls,
\* at, writes and carried record, for the properties, the length of the list when
\* the call began, the lines of the body, the index of the placeholder, the
\* contents assigned to the last message and whether a read ended inside a line.
NewSend(inputText, lenBefore) ==
    [pc |-> "fetch", inputText |-> inputText, el |-> TRUE, lenBefore |-> lenBefore,
     at |-> 0, ls |-> <<>>, body |-> <<>>, buffer |-> <<>>, acc |-> <<>>,
     writes |-> <<>>, carried |-> FALSE]

\* The mutation: the loading flag is not consulted.
SendRejectedNoLoadingCheck(inputText, isLoading) ==
    IF inputText = <<>> THEN "empty" ELSE "no"

\* The mutation: empty input is not rejected.
SendRejectedNoEmptyCheck(inputText, isLoading) ==
    IF isLoading THEN "busy" ELSE "no"

\* askChatGPT lines 280-288: the early returns on empty input and on a send in progress.
SendRejected(inputText, isLoading) ==
    IF inputText = <<>> THEN "empty" ELSE IF isLoading THEN "busy" ELSE "no"

\* askChatGPT called from the send button or the Enter key of the mounted overlay,
\* up to the suspension on fetch: loading is set, the button disabled, the user
\* message pushed and rendered, the input cleared.
AskChatGPT ==
    /\ IsReaderActive
    /\ LET inputText == Trim(Head(dom).input)
           pushed == Append(messages, Message("user", inputText))
           rejected == SendRejected(inputText, loading)
       IN  IF rejected # "no"
           THEN /\ chatEvent' = rejected
                /\ UNCHANGED <<dom, messages, loading, sends>>
           ELSE /\ Len(sends) < MaxSends
                /\ Len(messages) + 2 <= MaxMessages
                /\ loading' = TRUE
                /\ messages' = pushed
                /\ dom' = SetHead(dom, [Head(RenderInto(dom, pushed)) EXCEPT
                                           !.sendDisabled = TRUE, !.input = <<>>])
                /\ sends' = Append(sends, NewSend(inputText, Len(messages)))
                /\ chatEvent' = "accepted"
    /\ UNCHANGED <<bodyActive, opens, last, syncStore, chatInit>>
    /\ UNCHANGED <<fetched, notebookVars, resizerVars>>

\* The mutation: the cleanup removes the user message as well as the placeholder.
PopOnFailureTwice(ms) == SubSeq(ms, 1, Len(ms) - 2)

\* askChatGPT line 385: chatState.messages.pop().
PopOnFailure(ms) == SubSeq(ms, 1, Len(ms) - 1)

\* The mutation: the cleanup runs on the success path only.
LoadingAfterSendSuccessOnly(how) == how # "ok"

\* askChatGPT line 394, in the finally block: chatState.loading = false on every path.
LoadingAfterSend(how) == FALSE

\* askChatGPT lines 395-399: the mounted #sendButton, if any, is enabled again.
ButtonAfterSend(d) ==
    IF d = <<>> THEN d ELSE SetHead(d, [Head(d) EXCEPT !.sendDisabled = FALSE])

\* The mutation: the input is left as it is.
InputNotRestored(d, send) == d

\* askChatGPT line 389: the #userInput the call found gets the submitted text back.
InputRestored(d, send) ==
    IF d # <<>> /\ send.el THEN SetHead(d, [Head(d) EXCEPT !.input = send.inputText])
    ELSE d

Without(ss, i) == SubSeq(ss, 1, i - 1) \o SubSeq(ss, i + 1, Len(ss))

\* The catch block and the finally block of askChatGPT for the suspended call i:
\* the last message is popped, the list rendered, the input restored; then loading
\* is reset and the mounted button enabled.  The call is over.
FailSend(i, ms, how) ==
    /\ messages' = PopOnFailure(ms)
    /\ dom' = ButtonAfterSend(InputRestored(RenderInto(dom, PopOnFailure(ms)), sends[i]))
    /\ loading' = LoadingAfterSend(how)
    /\ sends' = Without(sends, i)
    /\ chatEvent' = how

\* The finally block alone, on the success path.
FinishSend(i) ==
    /\ dom' = ButtonAfterSend(dom)
    /\ loading' = LoadingAfterSend("ok")
    /\ sends' = Without(sends, i)
    /\ chatEvent' = "ok"
    /\ UNCHANGED messages

----------------------------------------------------------------------------
(* The streamed response body and its decoder. *)

DataPrefix == <<"d", "a", "t", "a", ":", " ">>

\* The sentinel line, data: [DONE].
DoneLine == DataPrefix \o <<"[", "D", "O", "N", "E", "]">>

\* Characters of a delta.content fragment.
ContentChars == {"H", "i", " ", "t"}

\* The line data: {"choices":[{"delta":{"content": c}}]}, the JSON event written {c}.
DataLine(c) == DataPrefix \o <<"{">> \o c \o <<"}">>

Line(text, frag, valid) == [text |-> text, frag |-> frag, valid |-> valid]

\* Well-formed lines of a response body, each with the fragment it carries: two
\* events and the sentinel.
LineKinds ==
    { Line(DataLine(<<"H", "i">>), <<"H", "i">>, TRUE),
      Line(DataLine(<<" ", "t">>), <<" ", "t">>, TRUE),
      Line(DoneLine, <<>>, TRUE) }

\* A data line whose payload is not valid JSON (an event cut short).
MalformedKinds ==
    { Line(DataPrefix \o <<"{", "H">>, <<>>, FALSE) }

RECURSIVE SeqsUpTo(_, _)
SeqsUpTo(S, n) ==
    IF n = 0 THEN {<<>>}
    ELSE LET shorter == SeqsUpTo(S, n - 1)
         IN  shorter \cup {Append(q, x) : q \in shorter, x \in S}

\* The bytes of a body: every line followed by a newline.
RECURSIVE Encode(_)
Encode(ls) == IF ls = <<>> THEN <<>> ELSE Head(ls).text \o <<"\n">> \o Encode(Tail(ls))

\* Bodies of up to MaxLines newline-terminated lines.
StreamBodies == SeqsUpTo(LineKinds \cup MalformedKinds, MaxLines)

\* The one body the reader model answers a request with: an event ending in a
\* carriage return and the blank line that ends it.
ReaderBodies ==
    { <<Line(DataLine(<<"H">>) \o <<"\r">>, <<"H">>, TRUE), Line(<<"\r">>, <<>>, TRUE)>> }

HasNewline(s) == \E k \in 1 .. Len(s) : s[k] = "\n"

\* The position of the first newline of s at or after position k.
RECURSIVE NewlineFrom(_, _)
NewlineFrom(s, k) == IF s[k] = "\n" THEN k ELSE NewlineFrom(s, k + 1)

FirstNewline(s) == NewlineFrom(s, 1)

\* String.prototype.split on the newline character.
RECURSIVE SplitLines(_)
SplitLines(s) ==
    IF ~HasNewline(s) THEN <<s>>
    ELSE LET k == FirstNewline(s)
         IN  <<SubSeq(s, 1, k - 1)>> \o SplitLines(SubSeq(s, k + 1, Len(s)))

\* The mutation: the last segment is decoded as a line although no newline ends it.
CompleteLinesAll(segments) == segments

\* askChatGPT lines 351-353: the lines left once lines.pop() has taken the last
\* segment, the text after the last newline.
CompleteLines(segments) == SubSeq(segments, 1, Len(segments) - 1)

\* The mutation: no text is carried over from one read to the next.
CarryOverDropped(segments) == <<>>

\* askChatGPT line 353: buffer = lines.pop() || ''.
CarryOver(segments) == segments[Len(segments)]

\* JSON.parse of a payload followed by the reads of data.choices[0].delta.content:
\* white space around the value is allowed; anything but an event object ends in
\* an exception (from the parser, or from reading a field of null).
JSONParse(p) ==
    LET t == Trim(p)
    IN  IF /\ Len(t) >= 2
           /\ t[1] = "{"
           /\ t[Len(t)] = "}"
           /\ \A j \in 2 .. Len(t) - 1 : t[j] \in ContentChars
        THEN [ok |-> TRUE, content |-> SubSeq(t, 2, Len(t) - 1)]
        ELSE [ok |-> FALSE, content |-> <<>>]

\* The mutation: the exception of a malformed line leaves the read loop.
OnParseFailureThrow == "throw"

\* askChatGPT lines 374-376: the exception is caught and logged, the loop goes on.
OnParseFailure == "skip"

\* askChatGPT lines 357-377 for one line: skip it, or take its fragment.
LineResult(line) ==
    IF Trim(line) = <<>> THEN [kind |-> "skip", content |-> <<>>]
    ELSE IF line = DoneLine THEN [kind |-> "skip", content |-> <<>>]
    ELSE IF StartsWith(line, DataPrefix)
         THEN LET d == JSONParse(SubSeq(line, Len(DataPrefix) + 1, Len(line)))
              IN  IF ~d.ok THEN [kind |-> OnParseFailure, content |-> <<>>]
                  ELSE IF d.content # <<>> THEN [kind |-> "fragment", content |-> d.content]
                  ELSE [kind |-> "skip", content |-> <<>>]
         ELSE [kind |-> "skip", content |-> <<>>]

\* The for loop over the complete lines of one read: the accumulated content and
\* every value assigned to the last message's content, in order.
RECURSIVE DecodeLines(_, _, _)
DecodeLines(lines, acc, writes) ==
    IF lines = <<>> THEN [acc |-> acc, writes |-> writes, threw |-> FALSE]
    ELSE LET r == LineResult(Head(lines))
         IN  IF r.kind = "throw" THEN [acc |-> acc, writes |-> writes, threw |-> TRUE]
             ELSE IF r.kind = "fragment"
                  THEN DecodeLines(Tail(lines), acc \o r.content,
                                   Append(writes, acc \o r.content))
                  ELSE DecodeLines(Tail(lines), acc, writes)

\* askChatGPT line 370: the content of the last message of the list is replaced.
WriteLast(ms, content) == [ms EXCEPT ![Len(ms)].content = content]

InFlight(pc) == {i \in 1 .. Len(sends) : sends[i].pc = pc}

SendIds == 1 .. MaxSends

\* fetch resolves with a 2xx response: the assistant placeholder is pushed and
\* rendered, the body reader is obtained, the first read is awaited.
FetchOk(i, bodies) ==
    /\ i \in InFlight("fetch")
    /\ \E ls \in bodies :
        LET pushed == Append(messages, Message("assistant", <<>>))
        IN  /\ messages' = pushed
            /\ dom' = RenderInto(dom, pushed)
            /\ sends' = [sends EXCEPT ![i].pc = "read", ![i].at = Len(pushed),
                             ![i].ls = ls, ![i].body = Encode(ls)]
    /\ UNCHANGED <<bodyActive, opens, last, syncStore, chatInit>>
    /\ UNCHANGED <<loading, chatEvent, fetched, notebookVars, resizerVars>>

\* A body whose last line no newline ends.
Unterminated(body) == SubSeq(body, 1, Len(body) - 1)

\* fetch resolves with a 2xx response whose body ends without a newline.
FetchOkCut(i, bodies) ==
    /\ i \in InFlight("fetch")
    /\ \E ls \in bodies :
        LET pushed == Append(messages, Message("assistant", <<>>))
        IN  /\ messages' = pushed
            /\ dom' = RenderInto(dom, pushed)
            /\ sends' = [sends EXCEPT ![i].pc = "read", ![i].at = Len(pushed),
                             ![i].ls = ls, ![i].body = Unterminated(Encode(ls))]
    /\ UNCHANGED <<bodyActive, opens, last, syncStore, chatInit>>
    /\ UNCHANGED <<loading, chatEvent, fetched, notebookVars, resizerVars>>

\* fetch resolves with a non-2xx response: line 328 throws.
FetchHttpError(i) ==
    /\ i \in InFlight("fetch")
    /\ FailSend(i, messages, "http")
    /\ UNCHANGED <<bodyActive, opens, last, syncStore, chatInit>>
    /\ UNCHANGED <<fetched, notebookVars, resizerVars>>

\* fetch rejects (network error).
FetchNetworkError(i) ==
    /\ i \in InFlight("fetch")
    /\ FailSend(i, messages, "network")
    /\ UNCHANGED <<bodyActive, opens, last, syncStore, chatInit>>
    /\ UNCHANGED <<fetched, notebookVars, resizerVars>>

\* The lengths of the chunk a read may deliver: any, or (coarse) the length of the
\* data marker and the whole rest.
ChunkLengths(body, any) ==
    IF any THEN 1 .. Len(body)
    ELSE {IF Len(DataPrefix) < Len(body) THEN Len(DataPrefix) ELSE Len(body), Len(body)}

\* reader.read() resolves with the next chunk: the chunk joins the buffer, the
\* complete lines are decoded, the rest is carried over.
ReadChunk(i, any) ==
    /\ i \in InFlight("read")
    /\ sends[i].body # <<>>
    /\ \E k \in ChunkLengths(sends[i].body, any) :
        LET chunk == SubSeq(sends[i].body, 1, k)
            rest == SubSeq(sends[i].body, k + 1, Len(sends[i].body))
            segments == SplitLines(sends[i].buffer \o chunk)
            lines == CompleteLines(segments)
            r == DecodeLines(lines, sends[i].acc, <<>>)
            written == IF r.writes = <<>> THEN messages
                       ELSE WriteLast(messages, r.writes[Len(r.writes)])
        IN  IF r.threw
            THEN FailSend(i, written, "parse")
            ELSE /\ messages' = written
                 /\ dom' = IF r.writes = <<>> THEN dom ELSE RenderInto(dom, written)
                 /\ sends' = [sends EXCEPT ![i].body = rest,
                                  ![i].buffer = CarryOver(segments),
                                  ![i].acc = r.acc,
                                  ![i].writes = sends[i].writes \o r.writes,
                                  ![i].carried = sends[i].carried \/ CarryOver(segments) # <<>>]
                 /\ UNCHANGED <<loading, chatEvent>>
    /\ UNCHANGED <<bodyActive, opens, last, syncStore, chatInit>>
    /\ UNCHANGED <<fetched, notebookVars, resizerVars>>

\* reader.read() resolves with done: the loop is left, the finally block runs.
ReadDone(i) ==
    /\ i \in InFlight("read")
    /\ sends[i].body = <<>>
    /\ FinishSend(i)
    /\ UNCHANGED <<bodyActive, opens, last, syncStore, chatInit>>
    /\ UNCHANGED <<fetched, notebookVars, resizerVars>>

\* reader.read() rejects in the middle of the stream.
ReadError(i) ==
    /\ i \in InFlight("read")
    /\ FailSend(i, messages, "read")
    /\ UNCHANGED <<bodyActive, opens, last, syncStore, chatInit>>
    /\ UNCHANGED <<fetched, notebookVars, resizerVars>>

\* Messages the list will still get from calls suspended on fetch.
Reserved == Cardinality(InFlight("fetch"))

\* Click on "extract page content" of the mounted overlay (querycontent, the
\* branch of an active reader; the other branch needs the button of an overlay
\* that is not mounted): without an article it throws; with one, a user message
\* is pushed whatever the loading flag says, and the list rendered.
QueryContent ==
    /\ IsReaderActive
    /\ Len(messages) + Reserved < MaxMessages
    /\ \E a \in Extractions :
        IF a.found
        THEN LET pushed == Append(messages, Message("user", <<"Q">> \o Trim(a.textContent)))
             IN  /\ messages' = pushed
                 /\ dom' = RenderInto(dom, pushed)
        ELSE UNCHANGED <<messages, dom>>
    /\ UNCHANGED <<bodyActive, opens, last, syncStore, chatInit>>
    /\ UNCHANGED <<loading, sends, chatEvent, fetched, notebookVars, resizerVars>>

----------------------------------------------------------------------------
(* The reader with its chat session. *)

NotFetched == [done |-> FALSE, value |-> EmptyObject]

\* The resizer as openReader leaves it (lines 947-956): isResizing is false, no
\* width is assigned to the article panel, no drag listener is bound to document.
NoDrag ==
    /\ isResizing = FALSE
    /\ leftPanelWidth = 0
    /\ dragListeners = <<>>
    /\ bodyCursor = ""
    /\ assigned = <<>>

Init ==
    /\ dom = <<>>
    /\ bodyActive = FALSE
    /\ opens = 0
    /\ last = Handled("none", <<>>, FALSE)
    /\ syncStore \in ReaderStores
    /\ chatInit = FALSE
    /\ messages = <<SystemMessage>>
    /\ loading = FALSE
    /\ sends = <<>>
    /\ chatEvent = "none"
    /\ fetched = NotFetched
    /\ nbTab = FALSE
    /\ nbText = <<>>
    /\ nbInits = 0
    /\ nbLoads = 0
    /\ saveTimeout = <<>>
    /\ localStore = <<>>
    /\ saveLog = <<>>
    /\ quiet = -1
    /\ heard = 0
    /\ NoDrag

Next ==
    \/ OnToggleReader
    \/ OpenReaderResume
    \/ InitializeChatInterface
    \/ OnGetReaderState
    \/ OnCloseReader
    \/ ToolbarClose
    \/ TypeInput
    \/ AskChatGPT
    \/ \E i \in SendIds : FetchOk(i, ReaderBodies)
    \/ \E i \in SendIds : FetchHttpError(i)
    \/ \E i \in SendIds : FetchNetworkError(i)
    \/ \E i \in SendIds : ReadChunk(i, FALSE)
    \/ \E i \in SendIds : ReadDone(i)
    \/ \E i \in SendIds : ReadError(i)
    \/ QueryContent

Spec == Init /\ [][Next]_vars

----------------------------------------------------------------------------
(* Properties of the reader and its chat session. *)

\* C1: in every reachable state chatState.messages is non-empty, its element 0 is
\* the system prompt and no other element has role system, and no mounted message
\* list shows a system message (renderMessages skips element 0).
C1_SystemMessageFirst ==
    /\ messages # <<>>
    /\ messages[1] = SystemMessage
    /\ \A k \in 2 .. Len(messages) : messages[k].role # "system"
    /\ \A j \in 1 .. Len(dom) :
           \A k \in 1 .. Len(dom[j].rendered) : dom[j].rendered[k].role # "system"

\* A failed request has popped the list down to the system prompt alone.
C1_Witness ==
    /\ chatEvent = "http"
    /\ messages = <<SystemMessage>>
    /\ dom # <<>>

\* C2: askChatGPT with non-empty input while chatState.loading is true changes
\* neither the messages, nor the loading flag, nor the input and the send control,
\* and starts no request: at most one call is ever suspended on a request or stream.
C2_SendWhileLoadingIsNoOp ==
    /\ [][(loading /\ IsReaderActive /\ Trim(Head(dom).input) # <<>> /\ AskChatGPT)
             => UNCHANGED <<messages, loading, sends, dom>>]_vars
    /\ [](Len(sends) <= 1)

\* A send was attempted with non-empty input while another one was in progress.
C2_Witness ==
    /\ chatEvent = "busy"
    /\ loading
    /\ Len(sends) = 1

\* C3 (as claimed): after a non-2xx response the list is one longer than before the
\* call (the user message stays) and the input shows the submitted text again.
C3_HttpFailureKeepsUserMessage ==
    [][\A i \in SendIds :
          FetchHttpError(i) =>
              /\ Len(messages') = sends[i].lenBefore + 1
              /\ (sends[i].el => Head(dom').input = sends[i].inputText)]_vars

\* C6: once every accepted send has ended (response read to its end, non-2xx
\* status, network error, read error), the session is Idle again: loading is
\* false and the mounted send control is enabled.
C6_ReturnsToIdle ==
    sends = <<>> =>
        /\ ~loading
        /\ \A j \in 1 .. Len(dom) : ~dom[j].sendDisabled

\* A send ended by a read error in the middle of the stream, and the session is Idle.
C6_Witness ==
    /\ chatEvent = "read"
    /\ sends = <<>>
    /\ ~loading
    /\ dom # <<>>
    /\ ~Head(dom).sendDisabled

\* C8 (as claimed): handling a toggle-reader message never throws out of the
\* listener, answers it exactly once unless openReader is still suspended, and a
\* successful answer carries the reader state that resulted.
C8_ToggleAlwaysAnswered ==
    [][(OnToggleReader \/ OpenReaderResume) =>
          /\ ~last'.threw
          /\ Len(last'.resp) <= 1
          /\ (last'.resp = <<>> => opens' > opens)
          /\ (last'.resp # <<>> /\ last'.resp[1].success =>
                last'.resp[1].active = (IF dom' # <<>> THEN "true" ELSE "false"))]_vars

\* C9: at most one overlay is mounted, and the body carries reader-mode-active
\* exactly when one is.
C9_OneOverlay ==
    /\ Len(dom) <= 1
    /\ bodyActive <=> dom # <<>>

\* An overlay is mounted while another openReader call, begun before this overlay
\* was mounted, is still suspended on the settings read.
C9_Witness ==
    /\ Len(dom) = 1
    /\ opens > 0
    /\ bodyActive

----------------------------------------------------------------------------
(* A send answered with a successful response, with bodies of every kind of    *)
(* line and reads that split the body anywhere.                                *)

\* The reader as the toggle-reader message leaves it, with a question typed.
InitStream ==
    /\ dom = <<[NewOverlay(FetchReaderSettings(NoStore)) EXCEPT !.input = <<" ", "h">>]>>
    /\ bodyActive = TRUE
    /\ opens = 0
    /\ last = Handled("toggle-reader", <<Response(TRUE, "true", "none")>>, FALSE)
    /\ syncStore = NoStore
    /\ chatInit = FALSE
    /\ messages = <<SystemMessage>>
    /\ loading = FALSE
    /\ sends = <<>>
    /\ chatEvent = "none"
    /\ fetched = NotFetched
    /\ nbTab = FALSE
    /\ nbText = <<>>
    /\ nbInits = 0
    /\ nbLoads = 0
    /\ saveTimeout = <<>>
    /\ localStore = <<>>
    /\ saveLog = <<>>
    /\ quiet = -1
    /\ heard = 0
    /\ NoDrag

NextStream ==
    \/ AskChatGPT
    \/ \E i \in SendIds : FetchOk(i, StreamBodies)
    \/ \E i \in SendIds : ReadChunk(i, TRUE)
    \/ \E i \in SendIds : ReadDone(i)

SpecStream == InitStream /\ [][NextStream]_vars

HasContent(frag) == frag # <<>>

\* The non-empty fragments of the lines ls, in order.
FragmentsOf(ls) == SelectSeq([k \in 1 .. Len(ls) |-> ls[k].frag], HasContent)

RECURSIVE CountNewlines(_)
CountNewlines(s) ==
    IF s = <<>> THEN 0
    ELSE (IF Head(s) = "\n" THEN 1 ELSE 0) + CountNewlines(Tail(s))

\* The lines of the body of send s that the reads so far have completed.
LinesRead(s) == SubSeq(s.ls, 1, Len(s.ls) - CountNewlines(s.body))

\* C4: however the reads split the body, every value assigned to the assistant
\* message is the concatenation of the fragments so far, the message holds the
\* last of them, and once the whole body is read it holds the concatenation of
\* the fragments of all its valid data lines ("Hi" then " t" then the sentinel
\* give "Hi t").
C4_StreamDecoded ==
    \A i \in InFlight("read") :
        LET s == sends[i]
            fr == FragmentsOf(s.ls)
        IN  /\ Len(s.writes) <= Len(fr)
            /\ \A k \in 1 .. Len(s.writes) : s.writes[k] = Concat(SubSeq(fr, 1, k))
            /\ messages[s.at] =
                   Message("assistant",
                           IF s.writes = <<>> THEN <<>> ELSE s.writes[Len(s.writes)])
            /\ (s.body = <<>> => messages[s.at].content = Concat(fr))

\* The body "Hi", " t", sentinel is read to its end, some read having ended
\* inside a line, and the assistant message holds "Hi t".
C4_Witness ==
    \E i \in InFlight("read") :
        /\ sends[i].ls = <<Line(DataLine(<<"H", "i">>), <<"H", "i">>, TRUE),
                           Line(DataLine(<<" ", "t">>), <<" ", "t">>, TRUE),
                           Line(DoneLine, <<>>, TRUE)>>
        /\ sends[i].body = <<>>
        /\ sends[i].carried
        /\ messages[sends[i].at].content = <<"H", "i", " ", "t">>

\* C5: a line that is not valid JSON, wherever it stands in the body, does not
\* end the send (no send ends through an exception of the decoder) and costs no
\* other line its fragment: the assistant message is kept and holds the fragments
\* of the valid lines read so far, and of all of them once the body is read.
C5_MalformedLineSkipped ==
    /\ chatEvent # "parse"
    /\ \A i \in InFlight("read") :
           LET s == sends[i]
           IN  (\E k \in 1 .. Len(s.ls) : ~s.ls[k].valid) =>
                   /\ messages[s.at] =
                          Message("assistant", Concat(FragmentsOf(LinesRead(s))))
                   /\ (s.body = <<>> => LinesRead(s) = s.ls)

\* A body with a malformed line between two events is read to its end and the
\* assistant message holds both fragments.
C5_Witness ==
    \E i \in InFlight("read") :
        /\ sends[i].ls = <<Line(DataLine(<<"H", "i">>), <<"H", "i">>, TRUE),
                           Line(DataPrefix \o <<"{", "H">>, <<>>, FALSE),
                           Line(DataLine(<<" ", "t">>), <<" ", "t">>, TRUE)>>
        /\ sends[i].body = <<>>
        /\ messages[sends[i].at].content = <<"H", "i", " ", "t">>

----------------------------------------------------------------------------
(* fetchReaderSettings over every stored settings object.                      *)

InitSettings ==
    /\ dom = <<>>
    /\ bodyActive = FALSE
    /\ opens = 0
    /\ last = Handled("none", <<>>, FALSE)
    /\ syncStore \in AllStores
    /\ chatInit = FALSE
    /\ messages = <<SystemMessage>>
    /\ loading = FALSE
    /\ sends = <<>>
    /\ chatEvent = "none"
    /\ fetched = NotFetched
    /\ nbTab = FALSE
    /\ nbText = <<>>
    /\ nbInits = 0
    /\ nbLoads = 0
    /\ saveTimeout = <<>>
    /\ localStore = <<>>
    /\ saveLog = <<>>
    /\ quiet = -1
    /\ heard = 0
    /\ NoDrag

\* fetchReaderSettings is called and its promise resolves.
ReadSettings ==
    /\ ~fetched.done
    /\ fetched' = [done |-> TRUE, value |-> FetchReaderSettings(syncStore)]
    /\ UNCHANGED <<readerVars, chatVars, notebookVars, resizerVars>>

NextSettings == ReadSettings

SpecSettings == InitSettings /\ [][NextSettings]_vars

\* C10: whatever object is stored, with any subset of the seven fields or none
\* at all, the result of fetchReaderSettings has exactly the seven fields, a
\* stored field with its stored value and a missing field with its default.
C10_SettingsMerged ==
    fetched.done =>
        /\ DOMAIN fetched.value = Fields
        /\ \A f \in Fields :
               fetched.value[f] =
                   IF syncStore.present /\ f \in DOMAIN syncStore.value
                   THEN syncStore.value[f]
                   ELSE DEFAULT_SETTINGS[f]

\* The settings are read with only a font size and the dark mode stored, both
\* other than the defaults.
C10_Witness ==
    /\ fetched.done
    /\ syncStore.present
    /\ DOMAIN syncStore.value = {"fontSize", "darkMode"}
    /\ syncStore.value["fontSize"] = 20
    /\ syncStore.value["darkMode"] = TRUE
    /\ fetched.value["fontSize"] = 20
    /\ fetched.value["maxWidth"] = "1000px"

----------------------------------------------------------------------------
(* The notebook of a mounted reader.  Time passes in steps of half the         *)
(* autosave delay; a timer that is due fires before more time passes.          *)

\* initializeNotebook line 546: the delay of the autosave timer, in milliseconds.
AutosaveDelay == 2000

TickStep == AutosaveDelay \div 2

\* What the user may have typed in the notebook.
NotebookTexts == {<<"a">>, <<"b">>}

InitNotebook ==
    /\ dom = <<NewOverlay(FetchReaderSettings(NoStore))>>
    /\ bodyActive = TRUE
    /\ opens = 0
    /\ last = Handled("toggle-reader", <<Response(TRUE, "true", "none")>>, FALSE)
    /\ syncStore = NoStore
    /\ chatInit = FALSE
    /\ messages = <<SystemMessage>>
    /\ loading = FALSE
    /\ sends = <<>>
    /\ chatEvent = "none"
    /\ fetched = NotFetched
    /\ nbTab = FALSE
    /\ nbText = <<>>
    /\ nbInits = 0
    /\ nbLoads = 0
    /\ saveTimeout = <<>>
    /\ localStore = <<>>
    /\ saveLog = <<>>
    /\ quiet = -1
    /\ heard = 0
    /\ NoDrag

\* Toolbar click on the notebook button: the notebook panel is shown and
\* initializeNotebook is scheduled, whether or not it has run before.
ToolbarSetNote ==
    /\ IsReaderActive
    /\ nbInits + nbLoads + Len(saveTimeout) < MaxInits
    /\ nbTab' = TRUE
    /\ nbInits' = nbInits + 1
    /\ UNCHANGED <<nbText, nbLoads, saveTimeout, localStore, saveLog, quiet, heard>>
    /\ UNCHANGED <<readerVars, chatVars, fetched, resizerVars>>

\* Toolbar click on the AI button: the chat panel is shown.
ToolbarAi ==
    /\ IsReaderActive
    /\ nbTab
    /\ nbTab' = FALSE
    /\ UNCHANGED <<nbText, nbInits, nbLoads, saveTimeout, localStore, saveLog, quiet, heard>>
    /\ UNCHANGED <<readerVars, chatVars, fetched, resizerVars>>

\* The scheduled initializeNotebook starts: without a textarea it returns, with
\* one it awaits loadNotebook.
InitializeNotebookStart ==
    /\ nbInits > 0
    /\ nbInits' = nbInits - 1
    /\ nbLoads' = IF IsReaderActive THEN nbLoads + 1 ELSE nbLoads
    /\ UNCHANGED <<nbTab, nbText, saveTimeout, localStore, saveLog, quiet, heard>>
    /\ UNCHANGED <<readerVars, chatVars, fetched, resizerVars>>

\* loadNotebook resolves: saved content, if any, replaces the textarea's value,
\* and the input listener is added with a saveTimeout of its own.
InitializeNotebookResume ==
    /\ nbLoads > 0
    /\ nbLoads' = nbLoads - 1
    /\ nbText' = IF localStore # <<>> THEN localStore ELSE nbText
    /\ saveTimeout' = Append(saveTimeout, -1)
    /\ UNCHANGED <<nbTab, nbInits, localStore, saveLog, quiet, heard>>
    /\ UNCHANGED <<readerVars, chatVars, fetched, resizerVars>>

\* The user edits the notebook: every input listener clears its timer and sets
\* a new one.
EditNotebook ==
    /\ IsReaderActive
    /\ nbTab
    /\ \E text \in NotebookTexts \ {nbText} : nbText' = text
    /\ saveTimeout' = [k \in 1 .. Len(saveTimeout) |-> AutosaveDelay]
    /\ saveLog' = IF quiet >= 0 /\ quiet < AutosaveDelay THEN saveLog ELSE <<>>
    /\ quiet' = 0
    /\ heard' = Len(saveTimeout)
    /\ UNCHANGED <<nbTab, nbInits, nbLoads, localStore>>
    /\ UNCHANGED <<readerVars, chatVars, fetched, resizerVars>>

\* Time passes.
Tick ==
    /\ nbInits = 0
    /\ \A k \in 1 .. Len(saveTimeout) : saveTimeout[k] # 0
    /\ \/ \E k \in 1 .. Len(saveTimeout) : saveTimeout[k] > 0
       \/ (quiet >= 0 /\ quiet < AutosaveDelay)
    /\ saveTimeout' = [k \in 1 .. Len(saveTimeout) |->
                          IF saveTimeout[k] > 0 THEN saveTimeout[k] - TickStep
                          ELSE saveTimeout[k]]
    /\ quiet' = IF quiet >= 0 /\ quiet < AutosaveDelay THEN quiet + TickStep ELSE quiet
    /\ UNCHANGED <<nbTab, nbText, nbInits, nbLoads, localStore, saveLog, heard>>
    /\ UNCHANGED <<readerVars, chatVars, fetched, resizerVars>>

\* The autosave timer of listener k fires: saveNotebook is called with the
\* textarea's value.
AutosaveFire(k) ==
    /\ k \in 1 .. Len(saveTimeout)
    /\ saveTimeout[k] = 0
    /\ localStore' = nbText
    /\ saveLog' = Append(saveLog, nbText)
    /\ saveTimeout' = [saveTimeout EXCEPT ![k] = -1]
    /\ UNCHANGED <<nbTab, nbText, nbInits, nbLoads, quiet, heard>>
    /\ UNCHANGED <<readerVars, chatVars, fetched, resizerVars>>

\* Click on the save button once a click listener is bound.
SaveButton ==
    /\ IsReaderActive
    /\ nbTab
    /\ saveTimeout # <<>>
    /\ localStore' = nbText
    /\ UNCHANGED <<nbTab, nbText, nbInits, nbLoads, saveTimeout, saveLog, quiet, heard>>
    /\ UNCHANGED <<readerVars, chatVars, fetched, resizerVars>>

NextNotebook ==
    \/ ToolbarSetNote
    \/ ToolbarAi
    \/ InitializeNotebookStart
    \/ InitializeNotebookResume
    \/ EditNotebook
    \/ Tick
    \/ \E k \in 1 .. MaxInits : AutosaveFire(k)
    \/ SaveButton

SpecNotebook == InitNotebook /\ [][NextNotebook]_vars

\* C7: once the autosave delay has passed since the last edit that an input
\* listener heard, with no timer due and no initialisation pending, the edits
\* since the burst began have caused exactly one autosave, and it carried the
\* textarea's content.
C7_AutosaveOnce ==
    ( /\ quiet >= AutosaveDelay
      /\ heard >= 1
      /\ nbInits = 0
      /\ nbLoads = 0
      /\ \A k \in 1 .. Len(saveTimeout) : saveTimeout[k] # 0 )
    => (Len(saveLog) = 1 /\ saveLog[1] = nbText)

----------------------------------------------------------------------------
(* Further properties of the reader and its message bridge.                    *)

NoArticleAnswer == <<Response(FALSE, "none", "no article")>>

\* C11: a toggle-reader message that finds the reader inactive and no article on
\* the page changes nothing (no overlay, no body class, no settings read begun,
\* the store untouched, nothing scheduled, the chat untouched) and is answered
\* once with success=false, the reader being inactive.
C11_ExtractionFailure ==
    [][(~IsReaderActive /\ ToggleReaderWith(NoArticle)) =>
          /\ UNCHANGED <<dom, bodyActive, opens, syncStore, chatInit, chatVars>>
          /\ dom' = <<>>
          /\ ~bodyActive'
          /\ last' = Handled("toggle-reader", NoArticleAnswer, FALSE)]_vars

\* A toggle-reader message was answered with success=false while an earlier
\* openReader call is still suspended on the settings read.
C11_Witness ==
    /\ last = Handled("toggle-reader", NoArticleAnswer, FALSE)
    /\ dom = <<>>
    /\ ~bodyActive
    /\ opens = 1

\* Everything but the record of the message handled last.
pageVars == <<dom, bodyActive, opens, syncStore, chatInit, chatVars, fetched, notebookVars, resizerVars>>

\* C12: get-reader-state answers {success: true, active} with active true exactly
\* when an overlay is mounted, and changes nothing else; close-reader answers
\* {success: true, active: false} with no overlay mounted and no body class left,
\* and on a reader that is already closed it changes nothing.
C12_StateAndClose ==
    /\ [][OnGetReaderState =>
             /\ last' = Handled("get-reader-state",
                                <<Response(TRUE, IF dom # <<>> THEN "true" ELSE "false", "none")>>,
                                FALSE)
             /\ UNCHANGED pageVars]_vars
    /\ [][OnCloseReader =>
             /\ last' = Handled("close-reader", <<Response(TRUE, "false", "none")>>, FALSE)
             /\ dom' = <<>>
             /\ ~bodyActive'
             /\ (dom = <<>> => UNCHANGED pageVars)]_vars

\* close-reader was answered while a send was in progress and an openReader call
\* suspended.
C12_Witness ==
    /\ last = Handled("close-reader", <<Response(TRUE, "false", "none")>>, FALSE)
    /\ dom = <<>>
    /\ ~bodyActive
    /\ loading
    /\ opens = 1

----------------------------------------------------------------------------
(* Further properties of the chat session.                                     *)

\* t is s without the white space at its two ends.
IsTrimmed(t, s) ==
    /\ t # <<>> => (Head(t) \notin WhiteSpace /\ t[Len(t)] \notin WhiteSpace)
    /\ \E i \in 1 .. Len(s) + 1 : \E j \in 0 .. Len(s) :
           /\ SubSeq(s, i, j) = t
           /\ \A k \in 1 .. Len(s) : (k < i \/ k > j) => s[k] \in WhiteSpace

\* C13: a send with input that is not empty after trimming, while not loading,
\* appends one user message holding the trimmed input as the last element, clears
\* the input, sets loading, disables the send control and suspends on the request;
\* a send with empty or white-space input changes neither the list nor the
\* loading flag and issues no request.
C13_IdleToSending ==
    [][(IsReaderActive /\ AskChatGPT) =>
          IF \E k \in 1 .. Len(Head(dom).input) : Head(dom).input[k] \notin WhiteSpace
          THEN ~loading =>
                  /\ Len(messages') = Len(messages) + 1
                  /\ SubSeq(messages', 1, Len(messages)) = messages
                  /\ messages'[Len(messages')].role = "user"
                  /\ IsTrimmed(messages'[Len(messages')].content, Head(dom).input)
                  /\ Head(dom').input = <<>>
                  /\ Head(dom').sendDisabled
                  /\ Head(dom').rendered[Len(messages') - 1] = messages'[Len(messages')]
                  /\ loading'
                  /\ Len(sends') = Len(sends) + 1
                  /\ sends'[Len(sends')].pc = "fetch"
          ELSE UNCHANGED <<messages, loading, sends>>]_vars

\* The input " h" was sent: the list ends with the user message "h", the input is
\* empty, the send control disabled and the call suspended on the request.
C13_Witness ==
    /\ chatEvent = "accepted"
    /\ dom # <<>>
    /\ messages = <<SystemMessage, Message("user", <<"h">>)>>
    /\ Head(dom).input = <<>>
    /\ Head(dom).sendDisabled
    /\ loading
    /\ Len(sends) = 1
    /\ sends[1].pc = "fetch"

\* C14: a read error after the placeholder was added, nothing else having been
\* appended since the send began, removes the placeholder with whatever content
\* it had: the list is the list before the send plus the user message of this
\* send, the session is Idle, and the input the call found, if still mounted,
\* holds the submitted text and its send control is enabled.
C14_StreamFailureCleanup ==
    [][\A i \in SendIds :
          (ReadError(i) /\ Len(messages) = sends[i].lenBefore + 2) =>
              /\ messages' = SubSeq(messages, 1, sends[i].lenBefore + 1)
              /\ messages'[Len(messages')] = Message("user", sends[i].inputText)
              /\ ~loading'
              /\ sends' = <<>>
              /\ (sends[i].el =>
                     /\ Head(dom').input = sends[i].inputText
                     /\ ~Head(dom').sendDisabled
                     /\ Head(dom').rendered = RenderedList(messages'))]_vars

\* A stream failed after its fragment had been applied: the list is the system
\* prompt and the user message, the input holds the submitted text again.
C14_Witness ==
    /\ chatEvent = "read"
    /\ messages = <<SystemMessage, Message("user", <<"h">>)>>
    /\ dom # <<>>
    /\ Head(dom).input = <<"h">>
    /\ Head(dom).rendered = <<Message("user", <<"h">>)>>
    /\ ~Head(dom).sendDisabled
    /\ ~loading

\* C15 (as claimed): no step changes the content of a message with role user
\* that stays in the list, whatever the interleaving of the stream with the
\* page-content action.
C15_UserMessagesUntouched ==
    [][\A k \in 1 .. Len(messages) :
          (k <= Len(messages') /\ messages[k].role = "user") =>
              messages'[k] = messages[k]]_vars

\* C16 (as claimed): the failure of a send removes no page-content message from
\* the list.
C16_CleanupKeepsPageContent ==
    [][\A i \in SendIds :
          (FetchHttpError(i) \/ FetchNetworkError(i) \/ ReadError(i)) =>
              \A k \in 1 .. Len(messages) :
                  (messages[k].role = "user" /\ Head(messages[k].content) = "Q") =>
                      (k <= Len(messages') /\ messages'[k] = messages[k])]_vars

\* C17: as long as the askChatGPT call is suspended on the request or on a read,
\* loading is true; loading goes back to false only in a step in which a
\* suspended call ends, never by closing, reopening or toggling the reader or by
\* the page-content action; and every send while loading changes neither the
\* list, nor the loading flag, nor the calls in flight.
C17_NoTimeout ==
    /\ [](sends # <<>> => loading)
    /\ [][(loading /\ ~loading') =>
             /\ Len(sends') < Len(sends)
             /\ \E i \in SendIds :
                    \/ FetchHttpError(i) \/ FetchNetworkError(i)
                    \/ ReadDone(i) \/ ReadError(i)]_vars
    /\ [][(loading /\ AskChatGPT) => UNCHANGED <<messages, loading, sends>>]_vars

\* With a request in flight the reader was closed and opened again, the page
\* content added and a send tried in the new overlay: loading is still true.
C17_Witness ==
    /\ loading
    /\ Len(sends) = 1
    /\ sends[1].pc = "fetch"
    /\ ~sends[1].el
    /\ dom # <<>>
    /\ chatEvent = "busy"
    /\ Len(messages) = 3

----------------------------------------------------------------------------
(* A send answered with a successful response whose body ends in an event that *)
(* no newline ends.                                                            *)

\* Bodies of up to MaxCutLines lines, the last one an event.
CutBodies ==
    {b \in SeqsUpTo(LineKinds \cup MalformedKinds, MaxCutLines) :
        b # <<>> /\ b[Len(b)].frag # <<>>}

NextCut ==
    \/ AskChatGPT
    \/ \E i \in SendIds : FetchOkCut(i, CutBodies)
    \/ \E i \in SendIds : ReadChunk(i, TRUE)
    \/ \E i \in SendIds : ReadDone(i)

SpecCut == InitStream /\ [][NextCut]_vars

\* C18: when the transport signals the end of a body whose last event no newline
\* ends, that event is still in the carry-over buffer, the step changes no
\* message, and the assistant message holds the fragments of the lines before it
\* only.
C18_BufferDiscardedAtEnd ==
    [][\A i \in SendIds :
          ReadDone(i) =>
              /\ sends[i].buffer = sends[i].ls[Len(sends[i].ls)].text
              /\ messages' = messages
              /\ messages[sends[i].at] =
                     Message("assistant",
                             Concat(FragmentsOf(SubSeq(sends[i].ls, 1, Len(sends[i].ls) - 1))))]_vars

\* A stream of "Hi" and one more event without a newline has ended: the
\* assistant message holds "Hi".
C18_Witness ==
    /\ chatEvent = "ok"
    /\ sends = <<>>
    /\ ~loading
    /\ messages = <<SystemMessage, Message("user", <<"h">>),
                    Message("assistant", <<"H", "i">>)>>

----------------------------------------------------------------------------
(* The reader and its theme toggle.                                            *)

\* The stored objects the theme model starts from: none, or a font size and the
\* dark mode.
ThemeStores ==
    {NoStore,
     [present |-> TRUE,
      value |-> [f \in {"fontSize", "darkMode"} |-> OtherValue[f]]]}

InitTheme ==
    /\ dom = <<>>
    /\ bodyActive = FALSE
    /\ opens = 0
    /\ last = Handled("none", <<>>, FALSE)
    /\ syncStore \in ThemeStores
    /\ chatInit = FALSE
    /\ messages = <<SystemMessage>>
    /\ loading = FALSE
    /\ sends = <<>>
    /\ chatEvent = "none"
    /\ fetched = NotFetched
    /\ nbTab = FALSE
    /\ nbText = <<>>
    /\ nbInits = 0
    /\ nbLoads = 0
    /\ saveTimeout = <<>>
    /\ localStore = <<>>
    /\ saveLog = <<>>
    /\ quiet = -1
    /\ heard = 0
    /\ NoDrag

NextTheme ==
    \/ OnToggleReader
    \/ OpenReaderResume
    \/ InitializeChatInterface
    \/ OnGetReaderState
    \/ OnCloseReader
    \/ ToolbarClose
    \/ ToolbarToggleTheme

SpecTheme == InitTheme /\ [][NextTheme]_vars

----------------------------------------------------------------------------
(* The send control while a send is in progress.                               *)

\* C20 (as claimed): whenever loading is true and an overlay is mounted, the
\* send control of that overlay is disabled.
C20_SendControlDisabledWhileLoading ==
    (loading /\ dom # <<>>) => Head(dom).sendDisabled

----------------------------------------------------------------------------
(* The chat session across closing and opening the reader.                     *)

\* A step that closes the reader or is part of opening it.
CloseOrOpen ==
    \/ OnCloseReader
    \/ ToolbarClose
    \/ OnToggleReader
    \/ OpenReaderResume
    \/ InitializeChatInterface

\* C21: closing the reader (close-reader, toolbar close, toggle off, the
\* removeReader of a failed open) and opening it again change neither
\* chatState.messages nor chatState.loading (a step that changes one of them is
\* none of these), and the message list of the overlay
\* that was opened shows, once initializeChatInterface has run, every message of
\* the session but the system prompt.
C21_ChatSurvivesReopen ==
    /\ [][(messages' # messages \/ loading' # loading) => ~CloseOrOpen]_vars
    /\ [][(chatInit /\ dom # <<>> /\ InitializeChatInterface) =>
             /\ Len(Head(dom').rendered) = Len(messages) - 1
             /\ \A k \in 2 .. Len(messages) : Head(dom').rendered[k - 1] = messages[k]]_vars

\* A reader closed and opened again while a request is in progress: the send
\* found the input of an overlay that is gone, loading is still true, and the new
\* overlay, its list initialised, shows the question.
C21_Witness ==
    /\ loading
    /\ Len(sends) = 1
    /\ sends[1].pc = "fetch"
    /\ ~sends[1].el
    /\ messages = <<SystemMessage, Message("user", <<"h">>)>>
    /\ Len(dom) = 1
    /\ ~chatInit
    /\ Head(dom).rendered = <<Message("user", <<"h">>)>>
    /\ ~Head(dom).sendDisabled

----------------------------------------------------------------------------
(* Notebook edits and what is stored.                                          *)

\* The autosave delay has passed since the last edit, no timer is due and no
\* initialisation is pending.
NotebookSettled ==
    /\ quiet >= AutosaveDelay
    /\ nbInits = 0
    /\ nbLoads = 0
    /\ \A k \in 1 .. Len(saveTimeout) : saveTimeout[k] # 0

\* C22 (as claimed): after an edit that an input listener heard, the textarea
\* keeps the text of that edit until the next edit, whatever tab switches and
\* saves come between, and once the autosave delay has passed storage holds
\* that text.
C22_EditPersisted ==
    [][heard' >= 1 =>
          /\ (nbText' # nbText => EditNotebook)
          /\ (NotebookSettled' => localStore' = nbText')]_vars

----------------------------------------------------------------------------
(* The reader after a close-reader message.                                    *)

\* C23 (as claimed): while close-reader is the message handled last (no
\* toggle-reader has been received since it was answered with active=false), no
\* step mounts an overlay, even with an earlier openReader call still suspended
\* on the settings read.
C23_StaysClosedAfterClose ==
    [][last = Handled("close-reader", <<Response(TRUE, "false", "none")>>, FALSE)
          => dom' = <<>>]_vars

----------------------------------------------------------------------------
(* The resizer of a mounted reader: drags of the bar between the article panel *)
(* and the side panel.  Positions and widths are whole pixels.                 *)

\* onMouseMove line 972: the limits of the article panel's width, in pixels.
MinWidth == 200
MaxWidth == 1200

\* Math.max and Math.min.
Max(a, b) == IF a >= b THEN a ELSE b
Min(a, b) == IF a <= b THEN a ELSE b

\* The mutation: the width is not limited.
NewWidthUnclamped(startWidth, dx) == startWidth + dx

\* onMouseMove line 972: Math.max(200, Math.min(1200, startWidth + dx)).
NewWidth(startWidth, dx) == Max(MinWidth, Min(MaxWidth, startWidth + dx))

\* e.clientX of a mouse event.
ClientXs == {0, 300, 1500}

\* leftPanel.offsetWidth at a mousedown: what the layout makes of the page and of
\* the width assigned before, which may lie outside the limits.
OffsetWidths == {100, 1300}

\* The closure of one mousedown: its onMouseMove and onMouseUp share startX and
\* startWidth.
Drag(startX, startWidth) == [startX |-> startX, startWidth |-> startWidth]

\* onMouseMove of the drag d for a mousemove at clientX: the width it assigns.
Assignment(d, clientX) ==
    [startX |-> d.startX, startWidth |-> d.startWidth, clientX |-> clientX,
     width |-> NewWidth(d.startWidth, clientX - d.startX)]

\* The reader as the toggle-reader message leaves it, no drag begun.
InitResizer == InitNotebook

\* mousedown on the resizer: the flag is set, the cursor changed, startX and
\* startWidth recorded and a new pair of listeners bound to document.
ResizerMouseDown ==
    /\ IsReaderActive
    /\ Len(dragListeners) < MaxDrags
    /\ \E x \in ClientXs, w \in OffsetWidths :
           dragListeners' = Append(dragListeners, Drag(x, w))
    /\ isResizing' = TRUE
    /\ bodyCursor' = "col-resize"
    /\ UNCHANGED <<leftPanelWidth, assigned>>
    /\ UNCHANGED <<readerVars, chatVars, fetched, notebookVars>>

\* mousemove on the document: every onMouseMove bound to it runs, in the order
\* they were bound; each returns at once unless isResizing, else assigns its width.
DocumentMouseMove ==
    /\ \E x \in ClientXs :
        LET ws == IF isResizing
                  THEN [k \in 1 .. Len(dragListeners) |-> Assignment(dragListeners[k], x)]
                  ELSE <<>>
        IN  /\ assigned' = ws
            /\ leftPanelWidth' = IF ws = <<>> THEN leftPanelWidth ELSE ws[Len(ws)].width
    /\ UNCHANGED <<isResizing, dragListeners, bodyCursor>>
    /\ UNCHANGED <<readerVars, chatVars, fetched, notebookVars>>

\* mouseup on the document: every onMouseUp bound to it runs; each resets the
\* flag and the cursor and removes its own pair of listeners.
DocumentMouseUp ==
    /\ isResizing' = IF dragListeners = <<>> THEN isResizing ELSE FALSE
    /\ bodyCursor' = IF dragListeners = <<>> THEN bodyCursor ELSE ""
    /\ dragListeners' = <<>>
    /\ UNCHANGED <<leftPanelWidth, assigned>>
    /\ UNCHANGED <<readerVars, chatVars, fetched, notebookVars>>

NextResizer ==
    \/ ResizerMouseDown
    \/ DocumentMouseMove
    \/ DocumentMouseUp

SpecResizer == InitResizer /\ [][NextResizer]_vars

\* C24: every width a drag handler assigns is its startWidth + dx, but 200 if
\* that is less and 1200 if it is more; the width of the panel changes only in a
\* mousemove while the flag is set, that is between a mousedown on the resizer
\* and the next mouseup; and a mouseup leaves the flag false, the cursor
\* restored and no move or up listener of a drag bound to document, so that
\* listeners are bound exactly while the flag is set.
C24_ResizerDrag ==
    /\ [](\A k \in 1 .. Len(assigned) :
             LET a == assigned[k]
                 t == a.startWidth + (a.clientX - a.startX)
             IN  a.width = IF t < 200 THEN 200 ELSE IF t > 1200 THEN 1200 ELSE t)
    /\ [](leftPanelWidth # 0 => (leftPanelWidth >= 200 /\ leftPanelWidth <= 1200))
    /\ [](isResizing <=> dragListeners # <<>>)
    /\ [][leftPanelWidth' # leftPanelWidth => (isResizing /\ DocumentMouseMove)]_vars
    /\ [][DocumentMouseUp =>
             /\ ~isResizing'
             /\ dragListeners' = <<>>
             /\ bodyCursor' = ""
             /\ leftPanelWidth' = leftPanelWidth]_vars

\* A drag begun at x = 300 on a panel 100 wide was moved to x = 1500 and ended:
\* the width is 1200, not 1300, the flag is false and no listener is left.
C24_Witness ==
    /\ ~isResizing
    /\ dragListeners = <<>>
    /\ bodyCursor = ""
    /\ leftPanelWidth = 1200
    /\ assigned = <<[startX |-> 300, startWidth |-> 100, clientX |-> 1500, width |-> 1200]>>

====
